---- MODULE Spec2Model ----
(***************************************************************************)
(* Model of n2n4m/summary_parameters.py (band-depth engine and two of its  *)
(* index callers) and of the moving mean filter of n2n4m/cotcat_denoise.   *)
(*                                                                         *)
(* Every function of the program is pure: a behaviour of the model is one  *)
(* call.  Init draws the function and its arguments, the function's action *)
(* computes what the call returns (or the exception it raises) into ret.   *)
(*                                                                         *)
(* Floating-point values are modelled as extended rationals <<n, d>>:      *)
(*   d > 0, gcd(n, d) = 1   the finite value n / d                         *)
(*   <<1, 0>>, <<-1, 0>>    +Infinity, -Infinity                           *)
(*   <<0, 0>>               NaN                                            *)
(* Rounding and the sign of zero are not modelled; with the integer        *)
(* reflectances drawn here no negative zero arises.                        *)
(***************************************************************************)
EXTENDS Integers, Sequences, FiniteSets

VARIABLES pc, fn, spectra, all_wavelengths, bd_wavelengths, kernel_sizes,
          short_ref, long_ref, cube, window, kernels, ret

vars == <<pc, fn, spectra, all_wavelengths, bd_wavelengths, kernel_sizes,
          short_ref, long_ref, cube, window, kernels, ret>>

(***************************************************************************)
(* Bounds of the model.                                                    *)
(***************************************************************************)
MaxRefl == 2
MaxBands == 3
MaxPulse == 5

Refl == 0..MaxRefl
Wavelengths == 1..MaxBands
KernelSizes == 1..MaxBands

(***************************************************************************)
(* Extended rational arithmetic (IEEE semantics of numpy's float arrays).  *)
(***************************************************************************)
Abs(x) == IF x < 0 THEN -x ELSE x
Sign(x) == IF x < 0 THEN -1 ELSE IF x > 0 THEN 1 ELSE 0
Min(x, y) == IF x < y THEN x ELSE y
Max(x, y) == IF x > y THEN x ELSE y

RECURSIVE GCD(_, _)
GCD(x, y) == IF y = 0 THEN x ELSE GCD(y, x % y)

NaN == <<0, 0>>
Inf(s) == <<s, 0>>
Norm(n, d) ==
    IF d = 0 THEN <<Sign(n), 0>>
    ELSE LET g == GCD(Abs(n), Abs(d))
         IN  <<(Sign(d) * n) \div g, Abs(d) \div g>>
Float(i) == <<i, 1>>

IsFinite(x) == x[2] # 0
IsNaN(x) == x = NaN
IsInf(x) == x[2] = 0 /\ x[1] # 0
IsZero(x) == x[2] # 0 /\ x[1] = 0

np_add(x, y) ==
    IF IsNaN(x) \/ IsNaN(y) THEN NaN
    ELSE IF IsInf(x) /\ IsInf(y) THEN (IF x = y THEN x ELSE NaN)
    ELSE IF IsInf(x) THEN x
    ELSE IF IsInf(y) THEN y
    ELSE Norm(x[1] * y[2] + y[1] * x[2], x[2] * y[2])

np_neg(x) == <<-x[1], x[2]>>
np_sub(x, y) == np_add(x, np_neg(y))

np_mul(x, y) ==
    IF IsNaN(x) \/ IsNaN(y) THEN NaN
    ELSE IF IsInf(x) \/ IsInf(y)
         THEN (IF IsZero(x) \/ IsZero(y) THEN NaN
               ELSE Inf(Sign(x[1]) * Sign(y[1])))
    ELSE Norm(x[1] * y[1], x[2] * y[2])

\* Fault: a "safe" division that gives 0 for a zero divisor.
np_true_divide_zero_safe(x, y) ==
    IF IsNaN(x) \/ IsNaN(y) THEN NaN
    ELSE IF IsInf(y) THEN (IF IsInf(x) THEN NaN ELSE Float(0))
    ELSE IF IsZero(y) THEN Float(0)
    ELSE IF IsInf(x) THEN Inf(Sign(x[1]) * Sign(y[1]))
    ELSE Norm(x[1] * y[2], x[2] * y[1])

\* numpy true division of float arrays: a zero divisor gives NaN or an
\* infinity (with a RuntimeWarning), never an exception.
np_true_divide(x, y) ==
    IF IsNaN(x) \/ IsNaN(y) THEN NaN
    ELSE IF IsInf(y) THEN (IF IsInf(x) THEN NaN ELSE Float(0))
    ELSE IF IsZero(y) THEN (IF IsZero(x) THEN NaN ELSE Inf(Sign(x[1])))
    ELSE IF IsInf(x) THEN Inf(Sign(x[1]) * Sign(y[1]))
    ELSE Norm(x[1] * y[2], x[2] * y[1])

np_less(x, y) ==
    /\ ~IsNaN(x)
    /\ ~IsNaN(y)
    /\ x # y
    /\ IF IsInf(x) THEN x[1] < 0
       ELSE IF IsInf(y) THEN y[1] > 0
       ELSE x[1] * y[2] < y[1] * x[2]

(***************************************************************************)
(* What a call gives back: a value, or the exception that ended it.        *)
(***************************************************************************)
Returns(v) == [status |-> "ok", value |-> v]
Raises(e) == [status |-> e, value |-> <<>>]
NoReturn == [status |-> "none", value |-> <<>>]

\* Fault: the division of numpy scalars, which gives NaN or an infinity.
py_truediv_as_numpy(x, y) == Returns(Norm(x, y))

\* Python true division of two plain numbers (int or float): a zero divisor
\* raises ZeroDivisionError.
py_truediv(x, y) ==
    IF y = 0 THEN Raises("ZeroDivisionError") ELSE Returns(Norm(x, y))

(***************************************************************************)
(* wavelength_weights                                                      *)
(***************************************************************************)
\* Fault: the two weights returned in the other order.
wavelength_weights_swapped(short_wavelength, center_wavelength, long_wavelength) ==
    LET q == py_truediv(center_wavelength - short_wavelength,
                        long_wavelength - short_wavelength)
    IN  IF q.status # "ok" THEN q
        ELSE LET b == q.value
                 a == np_sub(Float(1), b)
             IN  Returns(<<b, a>>)

wavelength_weights(short_wavelength, center_wavelength, long_wavelength) ==
    LET q == py_truediv(center_wavelength - short_wavelength,
                        long_wavelength - short_wavelength)
    IN  IF q.status # "ok" THEN q
        ELSE LET b == q.value
                 a == np_sub(Float(1), b)
             IN  Returns(<<a, b>>)

(***************************************************************************)
(* interpolated_center_wavelength_reflectance                              *)
(***************************************************************************)
interpolated_center_wavelength_reflectance(s_ref, bd_wl, l_ref) ==
    LET w == wavelength_weights(bd_wl[1], bd_wl[2], bd_wl[3])
    IN  IF w.status # "ok" THEN w
        ELSE LET a == w.value[1]
                 b == w.value[2]
             IN  Returns([i \in 1..Len(s_ref) |->
                             np_add(np_mul(a, s_ref[i]), np_mul(b, l_ref[i]))])

(***************************************************************************)
(* band_depth_calculation                                                  *)
(***************************************************************************)
\* Fault: the last matching position instead of the first.
tuple_index_last(t, x) ==
    IF \E i \in 1..Len(t) : t[i] = x
    THEN (CHOOSE i \in 1..Len(t) :
              t[i] = x /\ \A j \in (i + 1)..Len(t) : t[j] # x) - 1
    ELSE -1

\* tuple.index(x): the first 0-based position holding a value equal to x;
\* -1 stands for the ValueError raised when no position does.
tuple_index(t, x) ==
    IF \E i \in 1..Len(t) : t[i] = x
    THEN (CHOOSE i \in 1..Len(t) :
              t[i] = x /\ \A j \in 1..(i - 1) : t[j] # x) - 1
    ELSE -1

\* Fault: a negative bound clipped to the first band instead of counted from
\* the end.
slice_bound_clipped(i, n) == IF i < 0 THEN 0 ELSE IF i < n THEN i ELSE n

\* A bound of a basic slice over an axis of n entries: a negative bound counts
\* from the end, and both ends are clipped to the axis.
slice_bound(i, n) == IF i < 0 THEN Max(i + n, 0) ELSE Min(i, n)

\* row[start:stop] for a row given as a sequence (positions are 0-based).
py_slice(row, start, stop) ==
    LET lo == slice_bound(start, Len(row))
        hi == slice_bound(stop, Len(row))
    IN  [j \in 1..Max(hi - lo, 0) |-> row[lo + j]]

RECURSIVE insert_sorted(_, _)
insert_sorted(s, x) ==
    IF s = <<>> THEN <<x>>
    ELSE IF x <= Head(s) THEN <<x>> \o s
    ELSE <<Head(s)>> \o insert_sorted(Tail(s), x)

RECURSIVE sorted(_)
sorted(s) == IF s = <<>> THEN <<>> ELSE insert_sorted(sorted(Tail(s)), Head(s))

RECURSIVE seq_sum(_)
seq_sum(s) == IF s = <<>> THEN 0 ELSE Head(s) + seq_sum(Tail(s))

\* Fault: the mean of the window instead of its median.
np_median_as_mean(s) == IF Len(s) = 0 THEN NaN ELSE Norm(seq_sum(s), Len(s))

\* np.median over one row's window: NaN for an empty window (with a
\* RuntimeWarning), the middle of the sorted values, or the mean of the two
\* middle ones when their number is even.
np_median(s) ==
    LET n == Len(s)
        o == sorted(s)
    IN  IF n = 0 THEN NaN
        ELSE IF n % 2 = 1 THEN Float(o[(n + 1) \div 2])
        ELSE Norm(o[n \div 2] + o[n \div 2 + 1], 2)

\* Fault: every spectrum gets the median of the first spectrum's window.
kernel_median_first_row(sp, idx, half) ==
    [i \in 1..Len(sp) |-> np_median(py_slice(sp[1], idx - half, idx + half + 1))]

\* np.median(spectra[:, idx - half : idx + half + 1], axis=1)
kernel_median(sp, idx, half) ==
    [i \in 1..Len(sp) |-> np_median(py_slice(sp[i], idx - half, idx + half + 1))]

\* Fault: the slice stops at idx + half, one band short above the position.
kernel_stop_short(sp, all_wl, wl, kernel_size) ==
    LET idx == tuple_index(all_wl, wl)
        half == kernel_size \div 2
        n == Len(sp[1])
    IN  [idx |-> idx,
         start |-> slice_bound(idx - half, n),
         stop |-> slice_bound(idx + half, n),
         ref |-> [i \in 1..Len(sp) |->
                     np_median(py_slice(sp[i], idx - half, idx + half))]]

\* One of the three kernels of a call: the position all_wavelengths.index()
\* gives, the bands [start, stop) the slice takes from every spectrum, and the
\* median of each spectrum over them.
kernel(sp, all_wl, wl, kernel_size) ==
    LET idx == tuple_index(all_wl, wl)
        half == kernel_size \div 2
        n == Len(sp[1])
    IN  [idx |-> idx,
         start |-> slice_bound(idx - half, n),
         stop |-> slice_bound(idx + half + 1, n),
         ref |-> kernel_median(sp, idx, half)]

\* short_ref, center_ref and long_ref with their windows; empty when a lookup
\* raised.
band_depth_kernels(sp, all_wl, bd_wl, ks) ==
    IF \E j \in 1..3 : tuple_index(all_wl, bd_wl[j]) < 0
    THEN <<>>
    ELSE [j \in 1..3 |-> kernel(sp, all_wl, bd_wl[j], ks[j])]

band_depth_calculation(sp, all_wl, bd_wl, ks) ==
    LET k == band_depth_kernels(sp, all_wl, bd_wl, ks)
    IN  IF k = <<>>
        THEN Raises("ValueError")
        ELSE LET center_ref == k[2].ref
                 interpolated_center_ref ==
                     interpolated_center_wavelength_reflectance(k[1].ref, bd_wl,
                                                                k[3].ref)
             IN  IF interpolated_center_ref.status # "ok"
                 THEN interpolated_center_ref
                 ELSE Returns([i \in 1..Len(sp) |->
                                  np_true_divide(center_ref[i],
                                                 interpolated_center_ref.value[i])])

(***************************************************************************)
(* The index callers. Wavelengths are written in units of 0.00001          *)
(* micrometres (1.55264 is 155264); only their differences and ratios are  *)
(* used.                                                                   *)
(***************************************************************************)
\* 1 - array
one_minus(arr) == [i \in 1..Len(arr) |-> np_sub(Float(1), arr[i])]

\* Fault: the clamp left out.
clamp_negative_missing(arr) == arr

\* arr[arr < 0] = 0 (a comparison with NaN is False: NaN stays)
clamp_negative(arr) ==
    [i \in 1..Len(arr) |-> IF np_less(arr[i], Float(0)) THEN Float(0) ELSE arr[i]]

array_add(x, y) == [i \in 1..Len(x) |-> np_add(x[i], y[i])]

bd1750_wavelengths == <<155264, 175009, 181598>>
bd1750_kernel_sizes == <<1, 1, 1>>

bd1750_calculation(sp, wl) ==
    LET d == band_depth_calculation(sp, wl, bd1750_wavelengths, bd1750_kernel_sizes)
    IN  IF d.status # "ok" THEN d
        ELSE Returns(clamp_negative(one_minus(d.value)))

\* bd14, bd19, bd229, bd231, bd232, bd238, bd240
hyd_femg_clay_bands ==
    << [wl |-> <<133578, 141459, 155264>>, ks |-> <<5, 3, 5>>],
       [wl |-> <<186212, 192146, 207985>>, ks |-> <<5, 5, 5>>],
       [wl |-> <<215251, 228472, 234426>>, ks |-> <<3, 5, 3>>],
       [wl |-> <<215251, 230456, 234426>>, ks |-> <<3, 3, 3>>],
       [wl |-> <<215251, 232441, 234426>>, ks |-> <<3, 3, 3>>],
       [wl |-> <<234426, 238396, 243030>>, ks |-> <<3, 3, 3>>],
       [wl |-> <<234426, 239720, 243030>>, ks |-> <<3, 3, 3>>] >>

\* bdNN = 1 - band_depth_calculation(...); bdNN[bdNN < 0] = 0
hyd_femg_clay_term(sp, wl, j) ==
    LET d == band_depth_calculation(sp, wl, hyd_femg_clay_bands[j].wl,
                                    hyd_femg_clay_bands[j].ks)
    IN  IF d.status # "ok" THEN d
        ELSE Returns(clamp_negative(one_minus(d.value)))

RECURSIVE hyd_femg_clay_sum(_, _, _)
hyd_femg_clay_sum(sp, wl, j) ==
    IF j = 1 THEN hyd_femg_clay_term(sp, wl, 1).value
    ELSE array_add(hyd_femg_clay_sum(sp, wl, j - 1),
                   hyd_femg_clay_term(sp, wl, j).value)

hyd_femg_clay_index_calculation(sp, wl) ==
    IF \E j \in 1..Len(hyd_femg_clay_bands) :
           hyd_femg_clay_term(sp, wl, j).status # "ok"
    THEN hyd_femg_clay_term(sp, wl,
             CHOOSE j \in 1..Len(hyd_femg_clay_bands) :
                 /\ hyd_femg_clay_term(sp, wl, j).status # "ok"
                 /\ \A q \in 1..(j - 1) : hyd_femg_clay_term(sp, wl, q).status = "ok")
    ELSE Returns(hyd_femg_clay_sum(sp, wl, Len(hyd_femg_clay_bands)))

(***************************************************************************)
(* moving_mean_filter (n2n4m/cotcat_denoise.py), as the design describes   *)
(* it: along the band axis of every pixel, each position with a full       *)
(* window is replaced by the mean of the window, the others are kept.      *)
(***************************************************************************)
RECURSIVE band_sum(_, _, _)
band_sum(spectrum, lo, hi) ==
    IF lo > hi THEN 0 ELSE spectrum[lo] + band_sum(spectrum, lo + 1, hi)

\* Fault: the last band with a full window is left unfiltered.
mean_filtered_short(spectrum, w) ==
    LET half == w \div 2
    IN  [p \in 1..Len(spectrum) |->
            IF p - half >= 1 /\ p + half < Len(spectrum)
            THEN Norm(band_sum(spectrum, p - half, p + half), w)
            ELSE Float(spectrum[p])]

mean_filtered(spectrum, w) ==
    LET half == w \div 2
    IN  [p \in 1..Len(spectrum) |->
            IF p - half >= 1 /\ p + half <= Len(spectrum)
            THEN Norm(band_sum(spectrum, p - half, p + half), w)
            ELSE Float(spectrum[p])]

moving_mean_filter(c, w) ==
    Returns([row \in 1..Len(c) |->
                [col \in 1..Len(c[row]) |-> mean_filtered(c[row][col], w)]])

(***************************************************************************)
(* The inputs the calls are drawn from.                                    *)
(***************************************************************************)
Rows == [1..MaxBands -> Refl]
Triples(S) == [1..3 -> S]

NonDecreasing(g) == \A i \in 1..(Len(g) - 1) : g[i] <= g[i + 1]
Ascending(g) == \A i \in 1..(Len(g) - 1) : g[i] < g[i + 1]

\* Spectra with one step between two levels, and level spectra.
StepRows == {r \in [1..MaxBands -> 0..1] : NonDecreasing(r)}
LevelRows == {[p \in 1..MaxBands |-> v] : v \in Refl}
\* Wavelength grids as the data model describes them (ascending, distinct;
\* one more wavelength than bands, so that a grid can lack one) ...
AscendingGrids == {g \in [1..MaxBands -> 1..(MaxBands + 1)] : Ascending(g)}
\* ... and grids that repeat a wavelength, which the code accepts as well.
AnyGrids == {g \in [1..MaxBands -> Wavelengths] : NonDecreasing(g)}
CanonicalGrid == [i \in 1..MaxBands |-> i]

OrderedTriples(S) == {t \in Triples(S) : t[1] < t[2] /\ t[2] < t[3]}
\* Kernel sizes as every caller passes them: the same size at both ends.
SymmetricKernels == {k \in Triples(KernelSizes) : k[1] = k[3]}
UniformKernels == {k \in Triples(KernelSizes) : k[1] = k[2] /\ k[2] = k[3]}

\* One spectrum, an ascending grid, an ordered wavelength triple.
InitOrderedRequest ==
    /\ spectra \in {<<r>> : r \in Rows}
    /\ all_wavelengths \in AscendingGrids
    /\ bd_wavelengths \in OrderedTriples(1..(MaxBands + 1))
    /\ kernel_sizes \in SymmetricKernels

\* One spectrum, any grid, any wavelength triple.
InitAnyRequest ==
    /\ spectra \in {<<r>> : r \in StepRows}
    /\ all_wavelengths \in AnyGrids
    /\ bd_wavelengths \in Triples(Wavelengths)
    /\ kernel_sizes \in UniformKernels

\* Two spectra, one of them level.
InitTwoSpectra ==
    /\ spectra \in {<<r1, r2>> : r1 \in Rows, r2 \in LevelRows}
                   \cup {<<r2, r1>> : r1 \in Rows, r2 \in LevelRows}
    /\ all_wavelengths = CanonicalGrid
    /\ bd_wavelengths \in OrderedTriples(Wavelengths)
    /\ kernel_sizes \in UniformKernels

InitBandDepth ==
    /\ fn = "band_depth_calculation"
    /\ \/ InitOrderedRequest
       \/ InitAnyRequest
       \/ InitTwoSpectra
    /\ short_ref = <<>>
    /\ long_ref = <<>>
    /\ cube = <<>>
    /\ window = 0

InitWavelengthWeights ==
    /\ fn = "wavelength_weights"
    /\ bd_wavelengths \in Triples(1..(MaxBands + 1))
    /\ spectra = <<>>
    /\ all_wavelengths = <<>>
    /\ kernel_sizes = <<>>
    /\ short_ref = <<>>
    /\ long_ref = <<>>
    /\ cube = <<>>
    /\ window = 0

\* short_ref and long_ref are arrays of one shape, one entry per spectrum.
InitInterpolated ==
    /\ fn = "interpolated_center_wavelength_reflectance"
    /\ bd_wavelengths \in Triples(1..(MaxBands + 1))
    /\ \E n \in 1..2 :
          /\ short_ref \in [1..n -> {Float(v) : v \in Refl}]
          /\ long_ref \in [1..n -> {Float(v) : v \in Refl}]
    /\ spectra = <<>>
    /\ all_wavelengths = <<>>
    /\ kernel_sizes = <<>>
    /\ cube = <<>>
    /\ window = 0

\* bd1750_calculation: one or two spectra over the three bands it reads.
bd1750_grid == bd1750_wavelengths
InitBd1750 ==
    /\ fn = "bd1750_calculation"
    /\ all_wavelengths = bd1750_grid
    /\ \E n \in 1..2 : spectra \in [1..n -> [1..Len(bd1750_grid) -> Refl]]
    /\ bd_wavelengths = <<>>
    /\ kernel_sizes = <<>>
    /\ short_ref = <<>>
    /\ long_ref = <<>>
    /\ cube = <<>>
    /\ window = 0

\* hyd_femg_clay_index_calculation: a grid of the fourteen wavelengths it
\* reads, with two bands below and one above them for its widest kernels.
hyd_femg_clay_grid ==
    <<132266, 132922, 133578, 141459, 155264, 186212, 192146, 207985, 215251,
      228472, 230456, 232441, 234426, 238396, 239720, 243030, 243692>>

\* A level spectrum with one feature: the bands lo..hi hold u, the others v.
Pulse(lo, hi, u, v) ==
    [p \in 1..Len(hyd_femg_clay_grid) |-> IF lo <= p /\ p <= hi THEN u ELSE v]
PulseRows ==
    UNION {{Pulse(lo, hi, u, v) :
               hi \in lo..Min(lo + MaxPulse - 1, Len(hyd_femg_clay_grid)),
               u \in Refl, v \in Refl} :
           lo \in 1..Len(hyd_femg_clay_grid)}

\* The feature leaves the continuum level: every short kernel reads what the
\* long kernel of its band depth reads.
FlatContinuum(row) ==
    \A j \in 1..Len(hyd_femg_clay_bands) :
        kernel(<<row>>, hyd_femg_clay_grid, hyd_femg_clay_bands[j].wl[1],
               hyd_femg_clay_bands[j].ks[1]).ref
        = kernel(<<row>>, hyd_femg_clay_grid, hyd_femg_clay_bands[j].wl[3],
                 hyd_femg_clay_bands[j].ks[3]).ref

InitHydFemgClay ==
    /\ fn = "hyd_femg_clay_index_calculation"
    /\ all_wavelengths = hyd_femg_clay_grid
    /\ spectra \in {<<r>> : r \in {q \in PulseRows : FlatContinuum(q)}}
    /\ bd_wavelengths = <<>>
    /\ kernel_sizes = <<>>
    /\ short_ref = <<>>
    /\ long_ref = <<>>
    /\ cube = <<>>
    /\ window = 0

\* moving_mean_filter: a cube of 1 x 1 or 2 x 2 pixels that all hold one
\* spectrum of as many bands as the repository's test spectrum.
test_spectrum == <<1, 1, 1, 2, 1, 2, 1>>
correct_filtered_spectrum ==
    <<Float(1), Float(1), <<6, 5>>, <<7, 5>>, <<7, 5>>, Float(2), Float(1)>>

UniformCube(side, spectrum) == [row \in 1..side |-> [col \in 1..side |-> spectrum]]

InitMovingMean ==
    /\ fn = "moving_mean_filter"
    /\ cube \in {UniformCube(side, sp) :
                    side \in 1..2, sp \in [1..Len(test_spectrum) -> 1..MaxRefl]}
    /\ window \in {3, 5}
    /\ spectra = <<>>
    /\ all_wavelengths = <<>>
    /\ bd_wavelengths = <<>>
    /\ kernel_sizes = <<>>
    /\ short_ref = <<>>
    /\ long_ref = <<>>

Init ==
    /\ pc = "call"
    /\ ret = NoReturn
    /\ kernels = <<>>
    /\ \/ InitWavelengthWeights
       \/ InitInterpolated
       \/ InitBandDepth
       \/ InitBd1750
       \/ InitHydFemgClay
       \/ InitMovingMean

(***************************************************************************)
(* The calls.                                                              *)
(***************************************************************************)
Args == <<fn, spectra, all_wavelengths, bd_wavelengths, kernel_sizes,
          short_ref, long_ref, cube, window>>

CallWavelengthWeights ==
    /\ pc = "call"
    /\ fn = "wavelength_weights"
    /\ ret' = wavelength_weights(bd_wavelengths[1], bd_wavelengths[2],
                                 bd_wavelengths[3])
    /\ pc' = "done"
    /\ UNCHANGED <<Args, kernels>>

CallInterpolated ==
    /\ pc = "call"
    /\ fn = "interpolated_center_wavelength_reflectance"
    /\ ret' = interpolated_center_wavelength_reflectance(short_ref, bd_wavelengths,
                                                         long_ref)
    /\ pc' = "done"
    /\ UNCHANGED <<Args, kernels>>

CallBandDepth ==
    /\ pc = "call"
    /\ fn = "band_depth_calculation"
    /\ kernels' = band_depth_kernels(spectra, all_wavelengths, bd_wavelengths,
                                     kernel_sizes)
    /\ ret' = band_depth_calculation(spectra, all_wavelengths, bd_wavelengths,
                                     kernel_sizes)
    /\ pc' = "done"
    /\ UNCHANGED Args

CallBd1750 ==
    /\ pc = "call"
    /\ fn = "bd1750_calculation"
    /\ ret' = bd1750_calculation(spectra, all_wavelengths)
    /\ pc' = "done"
    /\ UNCHANGED <<Args, kernels>>

CallHydFemgClay ==
    /\ pc = "call"
    /\ fn = "hyd_femg_clay_index_calculation"
    /\ ret' = hyd_femg_clay_index_calculation(spectra, all_wavelengths)
    /\ pc' = "done"
    /\ UNCHANGED <<Args, kernels>>

CallMovingMean ==
    /\ pc = "call"
    /\ fn = "moving_mean_filter"
    /\ ret' = moving_mean_filter(cube, window)
    /\ pc' = "done"
    /\ UNCHANGED <<Args, kernels>>

Next ==
    \/ CallWavelengthWeights
    \/ CallInterpolated
    \/ CallBandDepth
    \/ CallBd1750
    \/ CallHydFemgClay
    \/ CallMovingMean

Spec == Init /\ [][Next]_vars

(***************************************************************************)
(* Vocabulary of the properties.                                           *)
(***************************************************************************)
Done(f) == pc = "done" /\ fn = f

NumBands == Len(all_wavelengths)
Present(w) == \E p \in 1..NumBands : all_wavelengths[p] = w
AllPresent == \A j \in 1..3 : Present(bd_wavelengths[j])
\* 0-based position of a wavelength of a grid of distinct wavelengths.
PosOf(w) == (CHOOSE p \in 1..NumBands : all_wavelengths[p] = w) - 1
HalfOf(j) == kernel_sizes[j] \div 2
WindowInside(j) ==
    /\ PosOf(bd_wavelengths[j]) - HalfOf(j) >= 0
    /\ PosOf(bd_wavelengths[j]) + HalfOf(j) <= NumBands - 1

\* The median of a row over a set S of 0-based band positions, by rank: the
\* mean of the lower and the upper median, which coincide when S is odd.
LowerMedian(row, S) ==
    CHOOSE v \in {row[p + 1] : p \in S} :
        /\ Cardinality({p \in S : row[p + 1] < v}) <= (Cardinality(S) - 1) \div 2
        /\ Cardinality({p \in S : row[p + 1] > v}) <= Cardinality(S) \div 2
UpperMedian(row, S) ==
    CHOOSE v \in {row[p + 1] : p \in S} :
        /\ Cardinality({p \in S : row[p + 1] < v}) <= Cardinality(S) \div 2
        /\ Cardinality({p \in S : row[p + 1] > v}) <= (Cardinality(S) - 1) \div 2
MedianOver(row, S) ==
    IF S = {} THEN NaN ELSE Norm(LowerMedian(row, S) + UpperMedian(row, S), 2)

SymmetricWindow(j) ==
    (PosOf(bd_wavelengths[j]) - HalfOf(j))..(PosOf(bd_wavelengths[j]) + HalfOf(j))

(***************************************************************************)
(* C1: on an ascending grid of distinct wavelengths, for short < center <  *)
(* long all in the grid and odd kernel sizes whose windows lie inside the  *)
(* grid, band_depth_calculation returns for spectrum i the value           *)
(* center_ref[i] / (a*short_ref[i] + b*long_ref[i]), each *_ref[i] being   *)
(* the median of spectrum i over the k bands [pos - k//2, pos + k//2] and  *)
(* a = (long-center)/(long-short), b = (center-short)/(long-short); and    *)
(* band_depth([[2,1,2]], (1,2,3), (1,2,3), (1,1,1)) = [0.5].               *)
(***************************************************************************)
C1_Applies ==
    /\ Done("band_depth_calculation")
    /\ Ascending(all_wavelengths)
    /\ bd_wavelengths[1] < bd_wavelengths[2]
    /\ bd_wavelengths[2] < bd_wavelengths[3]
    /\ AllPresent
    /\ \A j \in 1..3 : kernel_sizes[j] % 2 = 1 /\ WindowInside(j)

C1_Expected(i) ==
    LET s == bd_wavelengths[1]
        c == bd_wavelengths[2]
        l == bd_wavelengths[3]
        m == [j \in 1..3 |-> LowerMedian(spectra[i], SymmetricWindow(j))]
    IN  Norm(m[2] * (l - s), (l - c) * m[1] + (c - s) * m[3])

C1_IsTestCase ==
    /\ Done("band_depth_calculation")
    /\ spectra = << <<2, 1, 2>> >>
    /\ all_wavelengths = <<1, 2, 3>>
    /\ bd_wavelengths = <<1, 2, 3>>
    /\ kernel_sizes = <<1, 1, 1>>

C1_BandDepthValue ==
    /\ C1_Applies =>
          /\ ret.status = "ok"
          /\ Len(ret.value) = Len(spectra)
          /\ \A j \in 1..3 :
                Cardinality(SymmetricWindow(j)) = kernel_sizes[j]
          /\ \A i \in 1..Len(spectra) : ret.value[i] = C1_Expected(i)
    /\ C1_IsTestCase => ret = Returns(<< <<1, 2>> >>)

\* A 3-wide center window with a spike in it, on a grid with a gap.
C1_Witness ==
    /\ C1_Applies
    /\ kernel_sizes[2] = 3
    /\ \E i \in 1..Len(spectra) :
          /\ IsFinite(ret.value[i])
          /\ ret.value[i][2] > 1
          /\ spectra[i][PosOf(bd_wavelengths[2]) + 1] # C1_Expected(i)[1]

C3_Degenerate ==
    /\ bd_wavelengths # <<>>
    /\ bd_wavelengths[1] = bd_wavelengths[3]
    /\ \/ Done("wavelength_weights")
       \/ Done("interpolated_center_wavelength_reflectance")
       \/ Done("band_depth_calculation") /\ AllPresent

C4_Applies ==
    /\ Done("band_depth_calculation")
    /\ AllPresent
    /\ bd_wavelengths[1] # bd_wavelengths[3]

\* (long - short) * continuum of spectrum i, as a fraction num / den.
C4_ContinuumNum(i) ==
    (bd_wavelengths[3] - bd_wavelengths[2]) * kernels[1].ref[i][1] * kernels[3].ref[i][2]
    + (bd_wavelengths[2] - bd_wavelengths[1]) * kernels[3].ref[i][1] * kernels[1].ref[i][2]
C4_ContinuumDen(i) == kernels[1].ref[i][2] * kernels[3].ref[i][2]

C4_FiniteRefs(i) == \A j \in 1..3 : IsFinite(kernels[j].ref[i])
C4_ZeroContinuum(i) ==
    /\ IsFinite(kernels[1].ref[i])
    /\ IsFinite(kernels[3].ref[i])
    /\ C4_ContinuumNum(i) = 0

C5_FirstOnly ==
    [p \in 1..NumBands |->
        IF \E q \in 1..(p - 1) : all_wavelengths[q] = all_wavelengths[p]
        THEN 0 - p
        ELSE all_wavelengths[p]]

C5_Lookup ==
    Done("band_depth_calculation") =>
        /\ ~AllPresent => ret = Raises("ValueError")
        /\ AllPresent =>
              /\ ret.status # "ValueError"
              /\ \A j \in 1..3 :
                    /\ kernels[j].idx \in 0..(NumBands - 1)
                    /\ all_wavelengths[kernels[j].idx + 1] = bd_wavelengths[j]
                    /\ \A q \in 1..kernels[j].idx :
                          all_wavelengths[q] # bd_wavelengths[j]
              /\ ret = band_depth_calculation(spectra, C5_FirstOnly,
                                              bd_wavelengths, kernel_sizes)

\* Only the long wavelength is missing.
C5_Witness ==
    /\ Done("band_depth_calculation")
    /\ Present(bd_wavelengths[1])
    /\ Present(bd_wavelengths[2])
    /\ ~Present(bd_wavelengths[3])
    /\ ret = Raises("ValueError")

(***************************************************************************)
(* C7, as stated: a kernel window that underflows past band 0 on a grid    *)
(* with at least k bands wraps around, so the kernel reflectance is the    *)
(* median of a non-empty set of bands that includes bands from the far end *)
(* of the spectrum; a window that overflows past the last band is the      *)
(* slice of the bands that exist.                                          *)
(***************************************************************************)
C7_Underflows(j) == kernels[j].idx - HalfOf(j) < 0
C7_Overflows(j) == kernels[j].idx + HalfOf(j) >= NumBands

C7_Wrapped(j) ==
    {p % NumBands : p \in (kernels[j].idx - HalfOf(j))..(kernels[j].idx + HalfOf(j))}

C7_OverflowSlice ==
    \A j \in 1..3 :
        (C7_Overflows(j) /\ ~C7_Underflows(j)) =>
            /\ kernels[j].start = kernels[j].idx - HalfOf(j)
            /\ kernels[j].stop = NumBands
            /\ \A i \in 1..Len(spectra) :
                  kernels[j].ref[i] =
                      MedianOver(spectra[i],
                                 (kernels[j].idx - HalfOf(j))..(NumBands - 1))

C7_Original_Wraparound ==
    (Done("band_depth_calculation") /\ AllPresent) =>
        /\ \A j \in 1..3 :
              (C7_Underflows(j) /\ NumBands >= kernel_sizes[j]) =>
                  /\ kernels[j].start < kernels[j].stop
                  /\ \A i \in 1..Len(spectra) :
                        kernels[j].ref[i] = MedianOver(spectra[i], C7_Wrapped(j))
        /\ C7_OverflowSlice

(***************************************************************************)
(* C7, amended: when a kernel window underflows past band 0 on a grid with *)
(* more than 2*(k//2) bands (every odd k on a grid of at least k bands),   *)
(* the negative start counts from the end without wrapping, the slice is   *)
(* empty and the kernel reflectance, and with it the band depth, is NaN    *)
(* for every spectrum; a window that only overflows past the last band is  *)
(* the slice [pos - k//2, last band] of the bands that exist.              *)
(***************************************************************************)
C7_EdgeWindows ==
    (Done("band_depth_calculation") /\ AllPresent) =>
        /\ \A j \in 1..3 :
              (C7_Underflows(j) /\ NumBands > 2 * HalfOf(j)) =>
                  /\ kernels[j].start >= kernels[j].stop
                  /\ \A i \in 1..Len(spectra) : IsNaN(kernels[j].ref[i])
                  /\ ret.status = "ok" =>
                        \A i \in 1..Len(spectra) : IsNaN(ret.value[i])
        /\ C7_OverflowSlice

\* A 3-wide window at the first band of a 3-band ascending grid.
C7_Witness ==
    /\ Done("band_depth_calculation")
    /\ AllPresent
    /\ Ascending(all_wavelengths)
    /\ bd_wavelengths[1] < bd_wavelengths[2]
    /\ bd_wavelengths[2] < bd_wavelengths[3]
    /\ kernel_sizes[1] = 3
    /\ C7_Underflows(1)
    /\ NumBands >= kernel_sizes[1]
    /\ ret.status = "ok"
    /\ IsNaN(ret.value[1])

(***************************************************************************)
(* C8, as stated: for an even kernel size k the window is shifted          *)
(* asymmetrically around pos: it does not hold the same number of bands    *)
(* below pos as above pos (for odd k it holds k//2 bands on each side).    *)
(***************************************************************************)
C8_Inside(j) ==
    /\ kernels[j].idx - HalfOf(j) >= 0
    /\ kernels[j].idx + HalfOf(j) <= NumBands - 1
C8_Below(j) == kernels[j].idx - kernels[j].start
C8_Above(j) == kernels[j].stop - 1 - kernels[j].idx

C8_Original_EvenAsymmetric ==
    (Done("band_depth_calculation") /\ AllPresent) =>
        \A j \in 1..3 :
            C8_Inside(j) =>
                IF kernel_sizes[j] % 2 = 0
                THEN C8_Below(j) # C8_Above(j)
                ELSE C8_Below(j) = HalfOf(j) /\ C8_Above(j) = HalfOf(j)

(***************************************************************************)
(* C8, amended: for every kernel size k, even or odd, whose window lies    *)
(* inside the grid, the window holds k//2 bands below pos and k//2 bands   *)
(* above pos; it is symmetric, and for an even k it holds k + 1 bands, one *)
(* more than k. The kernel reflectance is the median over these bands.     *)
(***************************************************************************)
C8_SymmetricWindow ==
    (Done("band_depth_calculation") /\ AllPresent) =>
        \A j \in 1..3 :
            C8_Inside(j) =>
                /\ C8_Below(j) = HalfOf(j)
                /\ C8_Above(j) = HalfOf(j)
                /\ kernels[j].stop - kernels[j].start =
                       IF kernel_sizes[j] % 2 = 0 THEN kernel_sizes[j] + 1
                       ELSE kernel_sizes[j]
                /\ \A i \in 1..Len(spectra) :
                      kernels[j].ref[i] =
                          MedianOver(spectra[i],
                                     (kernels[j].idx - HalfOf(j))
                                         ..(kernels[j].idx + HalfOf(j)))

\* An even center kernel inside the grid whose median is not the center band.
C8_Witness ==
    /\ Done("band_depth_calculation")
    /\ AllPresent
    /\ kernel_sizes[2] = 2
    /\ C8_Inside(2)
    /\ kernels[2].stop - kernels[2].start = 3
    /\ kernels[2].ref[1] # Float(spectra[1][kernels[2].idx + 1])

(***************************************************************************)
(* C9: the result of band_depth_calculation has one entry per spectrum and *)
(* entry i depends only on spectrum i and the call's parameters: it is the *)
(* entry the spectrum gets alone or beside any other row, and identical    *)
(* rows get identical entries.                                             *)
(***************************************************************************)
C9_Alone(row) ==
    band_depth_calculation(<<row>>, all_wavelengths, bd_wavelengths, kernel_sizes)
C9_Beside(other, row) ==
    band_depth_calculation(<<other, row>>, all_wavelengths, bd_wavelengths,
                           kernel_sizes)

C9_PixelIndependence ==
    (Done("band_depth_calculation") /\ ret.status = "ok") =>
        /\ Len(ret.value) = Len(spectra)
        /\ \A i \in 1..Len(spectra) :
              /\ ret.value[i] = C9_Alone(spectra[i]).value[1]
              /\ \A j \in 1..Len(spectra) :
                    /\ ret.value[i] = C9_Beside(spectra[j], spectra[i]).value[2]
                    /\ spectra[i] = spectra[j] => ret.value[i] = ret.value[j]

\* Two different spectra with different finite depths.
C9_Witness ==
    /\ Done("band_depth_calculation")
    /\ ret.status = "ok"
    /\ Len(spectra) = 2
    /\ spectra[1] # spectra[2]
    /\ IsFinite(ret.value[1])
    /\ IsFinite(ret.value[2])
    /\ ret.value[1] # ret.value[2]

(***************************************************************************)
(* C6, as stated: moving_mean_filter with window 3 replaces every interior *)
(* band by the mean of its 3-wide window, keeps the first and the last     *)
(* window//2 bands, and applied to [1,1,1,2,1,2,1] in every pixel yields   *)
(* [1,1,1.2,1.4,1.4,2,1], with the shape of the input.                     *)
(***************************************************************************)
C6_SameShape ==
    /\ Len(ret.value) = Len(cube)
    /\ \A row \in 1..Len(cube) :
          /\ Len(ret.value[row]) = Len(cube[row])
          /\ \A col \in 1..Len(cube[row]) :
                Len(ret.value[row][col]) = Len(cube[row][col])

C6_EveryPixel(P(_, _)) ==
    \A row \in 1..Len(cube) : \A col \in 1..Len(cube[row]) :
        P(cube[row][col], ret.value[row][col])

\* out is s with the mean of the w-wide window wherever the window fits.
C6_WindowMeans(s, out) ==
    \A p \in 1..Len(s) :
        IF p > window \div 2 /\ p <= Len(s) - window \div 2
        THEN out[p][1] * window =
                 out[p][2] * band_sum(s, p - window \div 2, p + window \div 2)
        ELSE out[p] = Float(s[p])

C6_IsTestSpectrum(s, out) == s = test_spectrum
C6_TestOutput(s, out) == s = test_spectrum => out = correct_filtered_spectrum

C10_Clamped(d) == IF d[2] - d[1] <= 0 THEN Float(0) ELSE Norm(d[2] - d[1], d[2])

C10_Depth(wl, ks) == band_depth_calculation(spectra, all_wavelengths, wl, ks)
C10_ClayDepth(j) == C10_Depth(hyd_femg_clay_bands[j].wl, hyd_femg_clay_bands[j].ks)

RECURSIVE C10_ClaySum(_, _)
C10_ClaySum(i, j) ==
    IF j = 0 THEN Float(0)
    ELSE np_add(C10_ClaySum(i, j - 1), C10_Clamped(C10_ClayDepth(j).value[i]))

C10_NonNegative(x) == IsFinite(x) /\ x[1] >= 0

C10_ClampedResults ==
    /\ (Done("bd1750_calculation") /\ ret.status = "ok") =>
          /\ Len(ret.value) = Len(spectra)
          /\ \A i \in 1..Len(spectra) :
                LET d == C10_Depth(bd1750_wavelengths, bd1750_kernel_sizes).value[i]
                IN  IsFinite(d) =>
                        /\ ret.value[i] = C10_Clamped(d)
                        /\ C10_NonNegative(ret.value[i])
    /\ (Done("hyd_femg_clay_index_calculation") /\ ret.status = "ok") =>
          /\ Len(ret.value) = Len(spectra)
          /\ \A i \in 1..Len(spectra) :
                (\A j \in 1..7 : IsFinite(C10_ClayDepth(j).value[i])) =>
                    /\ ret.value[i] = C10_ClaySum(i, 7)
                    /\ C10_NonNegative(ret.value[i])

C10_InputsKept == spectra' = spectra /\ all_wavelengths' = all_wavelengths

C10_Clamping == [](C10_ClampedResults) /\ [][C10_InputsKept]_vars

\* A clay index whose clamp acted: a band depth above 1 beside the others.
C10_Witness ==
    /\ Done("hyd_femg_clay_index_calculation")
    /\ ret.status = "ok"
    /\ \A j \in 1..7 : IsFinite(C10_ClayDepth(j).value[1])
    /\ \E j \in 1..7 : np_less(Float(1), C10_ClayDepth(j).value[1])
    /\ C10_NonNegative(ret.value[1])

====
